---- MODULE Spec2Model ----
(***************************************************************************)
(* A model of github.com/wneessen/argon2: the Settings codec               *)
(* (settings.go), the envelope engine Derive / Validate with the accessors *)
(* Salt / Key (argon2.go), and the storage adapter Scan / Value (sql.go).  *)
(*                                                                         *)
(* Numbers.  TLC's integers are 32-bit signed, so a Go uint32 is kept as   *)
(* two 16-bit limbs [hi, lo] and its arithmetic wraps modulo 2^32 as the   *)
(* Go operators do.  A Go int (64-bit build) is kept in the same shape     *)
(* with an unbounded hi limb and never wraps in the ranges reached here.   *)
(* Bytes are the integers 0..255.                                          *)
(***************************************************************************)
EXTENDS Integers, Sequences, FiniteSets, TLC

VARIABLES hash, origin, reader, last, codec, sql, procs

vars == <<hash, origin, reader, last, codec, sql, procs>>

-----------------------------------------------------------------------------
(* Bounds of the model                                                     *)

\* Salt and key lengths 0..MaxLen are enumerated (next to the default 32/32
\* and the extreme value 2^32-1).
MaxLen == 2

\* Salt and key material (random bytes, KDF output) ranges over 0..MaxByte.
MaxByte == 2

\* The number of calls of Derive and Validate that run concurrently.
MaxGoroutines == 2

-----------------------------------------------------------------------------
(* Fixed-width arithmetic                                                  *)

Limb == 2^16

ByteMod == 2^8

MkU32(n) == [hi |-> n \div Limb, lo |-> n % Limb]

MaxUint32 == [hi |-> Limb - 1, lo |-> Limb - 1]

\* uint32 + uint32 in Go: wraps modulo 2^32.
AddU32(a, b) ==
    LET lo == a.lo + b.lo
        hi == a.hi + b.hi + (lo \div Limb)
    IN  [hi |-> hi % Limb, lo |-> lo % Limb]

\* int(x) for a uint32 x on a 64-bit build: the value is kept.
IntOfU32(x) == x

\* int + int: no wraparound in the range below 2^33.
AddInt(a, b) ==
    LET lo == a.lo + b.lo
    IN  [hi |-> a.hi + b.hi + (lo \div Limb), lo |-> lo % Limb]

IntLeq(a, b) == a.hi < b.hi \/ (a.hi = b.hi /\ a.lo <= b.lo)

\* The natural number a small int stands for (used only below 2^16).
ToNat(x) == x.hi * Limb + x.lo

IsSmall(x) == x.hi = 0

-----------------------------------------------------------------------------
(* settings.go                                                             *)

SerializedSettingsLength == 18

Settings(m, t, p, s, k) ==
    [Memory |-> m, Time |-> t, Threads |-> p, SaltLength |-> s, KeyLength |-> k]

\* var DefaultSettings
DefaultSettingsLight == Settings(MkU32(64 * 1024), MkU32(1), 4, MkU32(16), MkU32(32))

DefaultSettings == Settings(MkU32(128 * 1024), MkU32(3), 4, MkU32(32), MkU32(32))

PutUint32BigEndian(v) ==
    <<v.hi \div ByteMod, v.hi % ByteMod, v.lo \div ByteMod, v.lo % ByteMod>>

\* binary.LittleEndian.PutUint32
PutUint32(v) ==
    <<v.lo % ByteMod, v.lo \div ByteMod, v.hi % ByteMod, v.hi \div ByteMod>>

\* binary.LittleEndian.PutUint16
PutUint16(v) == <<v % ByteMod, v \div ByteMod>>

\* binary.LittleEndian.Uint32
Uint32(b) == [hi |-> b[3] + ByteMod * b[4], lo |-> b[1] + ByteMod * b[2]]

\* binary.LittleEndian.Uint16
Uint16(b) == b[1] + ByteMod * b[2]

\* uint16(x) of a uint8, and uint8(x) of a uint16
ToUint16(x) == x

ToUint8(x) == x % ByteMod

\* p[lo:hi] of Go, for in-range offsets (0-based, hi exclusive).
Slice(p, lo, hi) == SubSeq(p, lo + 1, hi)

SerializeBigEndian(s) ==
    PutUint32BigEndian(s.Memory) \o PutUint32BigEndian(s.Time)
      \o PutUint16(ToUint16(s.Threads))
      \o PutUint32BigEndian(s.SaltLength) \o PutUint32BigEndian(s.KeyLength)

Serialize(s) ==
    PutUint32(s.Memory) \o PutUint32(s.Time) \o PutUint16(ToUint16(s.Threads))
      \o PutUint32(s.SaltLength) \o PutUint32(s.KeyLength)

SettingsFromBytesKeyAtSaltOffset(p) ==
    [Memory     |-> Uint32(Slice(p, 0, 4)),
     Time       |-> Uint32(Slice(p, 4, 8)),
     Threads    |-> ToUint8(Uint16(Slice(p, 8, 10))),
     SaltLength |-> Uint32(Slice(p, 10, 14)),
     KeyLength  |-> Uint32(Slice(p, 10, 14))]

SettingsFromBytes(p) ==
    [Memory     |-> Uint32(Slice(p, 0, 4)),
     Time       |-> Uint32(Slice(p, 4, 8)),
     Threads    |-> ToUint8(Uint16(Slice(p, 8, 10))),
     SaltLength |-> Uint32(Slice(p, 10, 14)),
     KeyLength  |-> Uint32(Slice(p, 14, 18))]

-----------------------------------------------------------------------------
(* Go slices                                                               *)

\* (SubSeq turns a function on 1..n into a sequence value.)
Zeros(n) == SubSeq([i \in 1..n |-> 0], 1, n)

\* make([]byte, n) for an int n: a zeroed buffer (materialised when small).
Make(n) == Zeros(ToNat(n))

\* copy(dst, src): the first min(len(dst), len(src)) bytes of dst are replaced.
CopyInto(dst, src) ==
    SubSeq([i \in 1..Len(dst) |-> IF i <= Len(src) THEN src[i] ELSE dst[i]],
           1, Len(dst))

\* copy(dst[lo:hi], src) seen on dst, for lo <= hi <= len(dst).
CopyAt(dst, lo, hi, src) ==
    SubSeq([i \in 1..Len(dst) |->
               IF i > lo /\ i <= hi /\ i - lo <= Len(src) THEN src[i - lo] ELSE dst[i]],
           1, Len(dst))

\* A slice expression b[lo:hi] panics unless 0 <= lo <= hi <= cap(b).
SliceInRange(lo, hi, cap) == IntLeq(lo, hi) /\ IntLeq(hi, cap)

-----------------------------------------------------------------------------
(* Collaborators: crypto/rand, io.ReadFull, argon2.IDKey, crypto/subtle    *)

RandSeeds == 0..MaxByte

\* One outcome of the random source: n bytes determined by the draw `seed`.
RandBytes(seed, n) ==
    SubSeq([i \in 1..n |-> (seed + i - 1) % (MaxByte + 1)], 1, n)

\* io.ReadFull(rand.Reader, buf) on a zeroed buf of n bytes (n an int).
\* A zero-length buf is "read" without calling the reader; a failing reader
\* (failReader of argon2_test.go) fills nothing and reports an error.
ReadFull(rd, seed, n) ==
    [called |-> n # MkU32(0),
     err    |-> n # MkU32(0) /\ rd = "fail",
     buf    |-> IF ~IsSmall(n) THEN <<>>
                ELSE IF rd = "ok" THEN RandBytes(seed, ToNat(n))
                ELSE Zeros(ToNat(n))]

RECURSIVE SumSeq(_)
SumSeq(s) == IF s = <<>> THEN 0 ELSE Head(s) + SumSeq(Tail(s))

\* argon2.IDKey rejects (panics on) fewer than one pass, fewer than one lane
\* and an empty output.
IDKeyPanics(time, threads, keyLen) ==
    time = MkU32(0) \/ threads = 0 \/ keyLen = MkU32(0)

\* argon2.IDKey: exactly keyLen bytes, a deterministic function of its inputs.
IDKey(password, salt, time, memory, threads, keyLen) ==
    LET mix == SumSeq(password) + 2 * SumSeq(salt) + Len(salt)
                 + time.lo + memory.lo + memory.hi + threads
    IN  SubSeq([i \in 1..ToNat(keyLen) |-> (mix + 2 * i) % (MaxByte + 1)],
               1, ToNat(keyLen))

\* subtle.ConstantTimeCompare: 1 iff equal length and equal contents.
ConstantTimeCompareFirstByte(x, y) ==
    IF Len(x) # Len(y) THEN 0
    ELSE IF Len(x) = 0 \/ x[1] = y[1] THEN 1 ELSE 0

ConstantTimeCompare(x, y) ==
    IF Len(x) # Len(y) THEN 0
    ELSE IF \A i \in 1..Len(x) : x[i] = y[i] THEN 1 ELSE 0

-----------------------------------------------------------------------------
(* The record of one call                                                  *)

NoKdf == [password |-> <<>>, salt |-> <<>>, time |-> MkU32(0), memory |-> MkU32(0),
          threads |-> 0, keyLen |-> MkU32(0)]

KdfArgs(password, salt, s) ==
    [password |-> password, salt |-> salt, time |-> s.Time, memory |-> s.Memory,
     threads |-> s.Threads, keyLen |-> s.KeyLength]

NoCall ==
    [op        |-> "none",      \* "Derive", "Validate", "Salt", "Key"
     password  |-> <<>>,
     settings  |-> DefaultSettings,
     a         |-> <<>>,        \* the receiver envelope as the call found it
     after     |-> <<>>,        \* the receiver envelope as the call left it
     panic     |-> "none",      \* "slice": slice bounds out of range; "kdf": IDKey panicked
     err       |-> FALSE,       \* a non-nil error was returned
     ret       |-> FALSE,       \* Validate's result
     out       |-> <<>>,        \* the result of Derive (<<>> for nil), Salt, Key
     path      |-> "none",      \* Validate: "short", "mismatch", "wellformed";
                                \* Salt, Key: "short", "sliced"
     data      |-> <<>>,        \* Validate's working buffer
     salt      |-> <<>>,
     key       |-> <<>>,        \* stored key (Validate) / derived key (Derive)
     kdf       |-> NoKdf,       \* the arguments of the IDKey call
     kdfCalls  |-> 0,
     randReads |-> 0,           \* calls of io.ReadFull that reached the reader
     randErrs  |-> 0,           \* of these, the ones that failed
     randBytes |-> <<>>]        \* what the last read delivered

-----------------------------------------------------------------------------
(* argon2.go: Derive                                                       *)

HeaderLen == MkU32(SerializedSettingsLength)

\* if _, err := io.ReadFull(rand.Reader, salt); err != nil { return nil, ... }
DeriveSaltFailedIgnored(r) == FALSE

DeriveSaltFailed(r) == r.err

\* hashSize := SerializedSettingsLength + int(settings.SaltLength+settings.KeyLength)
\* The sum is taken in uint32 and converted afterwards.
DeriveHashSize(settings) ==
    AddInt(HeaderLen, IntOfU32(AddU32(settings.SaltLength, settings.KeyLength)))

\* SerializedSettingsLength+int(settings.SaltLength): each term converted first.
SaltEnd(settings) == AddInt(HeaderLen, IntOfU32(settings.SaltLength))

\* The envelope Derive assembles once every slice is in range.
DeriveAssemble(settings, salt, key) ==
    LET hash0 == Make(DeriveHashSize(settings))
        hash1 == CopyInto(hash0, Serialize(settings))
        hash2 == CopyAt(hash1, SerializedSettingsLength, Len(hash1), salt)
    IN  CopyAt(hash2, ToNat(SaltEnd(settings)), Len(hash2), key)

Derive(password, settings, rd, seed) ==
    LET r        == ReadFull(rd, seed, IntOfU32(settings.SaltLength))
        hashSize == DeriveHashSize(settings)
        entered  == [NoCall EXCEPT !.op = "Derive", !.password = password,
                                   !.settings = settings,
                                   !.randReads = IF r.called THEN 1 ELSE 0,
                                   !.randErrs = IF r.err THEN 1 ELSE 0,
                                   !.randBytes = r.buf]
    IN  IF DeriveSaltFailed(r)
          THEN [entered EXCEPT !.err = TRUE]
        ELSE IF IDKeyPanics(settings.Time, settings.Threads, settings.KeyLength)
          THEN [entered EXCEPT !.panic = "kdf", !.kdfCalls = 1]
        ELSE IF ~SliceInRange(SaltEnd(settings), hashSize, hashSize)
          THEN [entered EXCEPT !.panic = "slice", !.kdfCalls = 1]
        ELSE LET salt == r.buf
                 key  == IDKey(password, salt, settings.Time, settings.Memory,
                               settings.Threads, settings.KeyLength)
             IN  [entered EXCEPT !.out = DeriveAssemble(settings, salt, key),
                                 !.salt = salt, !.key = key,
                                 !.kdf = KdfArgs(password, salt, settings),
                                 !.kdfCalls = 1]

-----------------------------------------------------------------------------
(* argon2.go: Salt, Key                                                    *)

\* data := make([]byte, len(a)); copy(data, a)
\* The memory after the two statements: the receiver's array and the new one.
WorkingCopyReversed(a) ==
    [recv |-> CopyInto(a, Make(MkU32(Len(a)))), data |-> Make(MkU32(Len(a)))]

WorkingCopy(a) == [recv |-> a, data |-> CopyInto(Make(MkU32(Len(a))), a)]

\* SerializedSettingsLength+int(settings.SaltLength+settings.KeyLength)
KeyEndWithoutSalt(settings) == AddInt(HeaderLen, IntOfU32(settings.KeyLength))

KeyEnd(settings) ==
    AddInt(HeaderLen, IntOfU32(AddU32(settings.SaltLength, settings.KeyLength)))

\* func (a Argon2) Salt() []byte
Salt(a) ==
    LET mem     == WorkingCopy(a)
        data    == mem.data
        entered == [NoCall EXCEPT !.op = "Salt", !.a = a, !.after = mem.recv,
                                  !.data = data]
    IN  IF Len(data) < SerializedSettingsLength
          THEN [entered EXCEPT !.path = "short", !.out = <<>>]
        ELSE LET settings == SettingsFromBytes(Slice(data, 0, SerializedSettingsLength))
                 hi       == SaltEnd(settings)
             IN  IF ~SliceInRange(HeaderLen, hi, MkU32(Len(data)))
                   THEN [entered EXCEPT !.settings = settings, !.panic = "slice"]
                 ELSE [entered EXCEPT !.settings = settings, !.path = "sliced",
                                      !.out = Slice(data, SerializedSettingsLength,
                                                    ToNat(hi))]

\* func (a Argon2) Key() []byte
Key(a) ==
    LET mem     == WorkingCopy(a)
        data    == mem.data
        entered == [NoCall EXCEPT !.op = "Key", !.a = a, !.after = mem.recv,
                                  !.data = data]
    IN  IF Len(data) < SerializedSettingsLength
          THEN [entered EXCEPT !.path = "short", !.out = <<>>]
        ELSE LET settings == SettingsFromBytes(Slice(data, 0, SerializedSettingsLength))
                 lo       == SaltEnd(settings)
                 hi       == KeyEnd(settings)
             IN  IF ~SliceInRange(lo, hi, MkU32(Len(data)))
                   THEN [entered EXCEPT !.settings = settings, !.panic = "slice"]
                 ELSE [entered EXCEPT !.settings = settings, !.path = "sliced",
                                      !.out = Slice(data, ToNat(lo), ToNat(hi))]

-----------------------------------------------------------------------------
(* argon2.go: Validate                                                     *)

\* len(data) < SerializedSettingsLength
ValidateTooShort(data) == Len(data) < SerializedSettingsLength

\* len(data[SerializedSettingsLength:]) of a buffer made for `settings`
PayloadLen(settings) == IntOfU32(AddU32(settings.SaltLength, settings.KeyLength))

\* SerializedSettingsLength+int(settings.SaltLength+settings.KeyLength)
ValidateExpectedLen(settings) ==
    AddInt(HeaderLen, IntOfU32(AddU32(settings.SaltLength, settings.KeyLength)))

\* len(data) != SerializedSettingsLength+int(settings.SaltLength+settings.KeyLength)
ValidateLengthMismatchUnchecked(data, settings) == FALSE

ValidateLengthMismatch(data, settings) ==
    MkU32(Len(data)) # ValidateExpectedLen(settings)

\* data = make(n); copy(data, header); io.ReadFull(rand.Reader, data[18:])
Resynthesise(n, header, r) ==
    LET fresh == Make(n)
        withHeader == CopyInto(fresh, header)
    IN  CopyAt(withHeader, SerializedSettingsLength, Len(withHeader), r.buf)

\* The key region starts where the salt ends.
ValidateKeyStartAtHeader(settings) == HeaderLen

ValidateKeyStart(settings) == SaltEnd(settings)

\* return subtle.ConstantTimeCompare(key, derived) == 1
ValidateResultLengthOnly(key, derived) == Len(key) = Len(derived)

ValidateResult(key, derived) == ConstantTimeCompare(key, derived) = 1

Validate(a, password, rd, seed) ==
    LET mem      == WorkingCopy(a)
        data0    == mem.data
        short    == ValidateTooShort(data0)
        defLen   == ValidateExpectedLen(DefaultSettings)
        r1       == ReadFull(rd, seed, PayloadLen(DefaultSettings))
        data1    == IF short THEN Resynthesise(defLen, Serialize(DefaultSettings), r1)
                    ELSE data0
        settings == SettingsFromBytes(Slice(data1, 0, SerializedSettingsLength))
        want     == ValidateExpectedLen(settings)
        mismatch == ValidateLengthMismatch(data1, settings)
        r2       == ReadFull(rd, seed + 1, PayloadLen(settings))
        \* data is reassigned before the copy, so the copy reads the new, zeroed
        \* buffer: copy(data, data[:SerializedSettingsLength])
        data2    == IF mismatch
                    THEN Resynthesise(want, Zeros(SerializedSettingsLength), r2)
                    ELSE data1
        reads    == (IF short /\ r1.called THEN 1 ELSE 0)
                      + (IF mismatch /\ r2.called THEN 1 ELSE 0)
        errs     == (IF short /\ r1.err THEN 1 ELSE 0)
                      + (IF mismatch /\ r2.err THEN 1 ELSE 0)
        cap      == MkU32(Len(data2))
        saltEnd  == SaltEnd(settings)
        keyStart == ValidateKeyStart(settings)
        entered  == [NoCall EXCEPT !.op = "Validate", !.password = password,
                                   !.settings = settings, !.a = a,
                                   !.after = mem.recv,
                                   !.path = IF short THEN "short"
                                            ELSE IF mismatch THEN "mismatch"
                                            ELSE "wellformed",
                                   !.data = data2,
                                   !.randReads = reads, !.randErrs = errs,
                                   !.randBytes = IF mismatch THEN r2.buf
                                                 ELSE IF short THEN r1.buf ELSE <<>>]
    IN  IF ~SliceInRange(HeaderLen, saltEnd, cap) \/ ~SliceInRange(keyStart, want, cap)
          THEN [entered EXCEPT !.panic = "slice"]
        ELSE LET salt == Slice(data2, SerializedSettingsLength, ToNat(saltEnd))
                 key  == Slice(data2, ToNat(keyStart), ToNat(want))
                 args == KdfArgs(password, salt, settings)
             IN  IF IDKeyPanics(settings.Time, settings.Threads, settings.KeyLength)
                   THEN [entered EXCEPT !.panic = "kdf", !.salt = salt, !.key = key,
                                        !.kdf = args, !.kdfCalls = 1]
                 ELSE LET derived == IDKey(password, salt, settings.Time,
                                           settings.Memory, settings.Threads,
                                           settings.KeyLength)
                      IN  [entered EXCEPT !.salt = salt, !.key = key, !.kdf = args,
                                          !.kdfCalls = 1,
                                          !.ret = ValidateResult(key, derived)]

-----------------------------------------------------------------------------
(* sql.go: Scan and Value                                                  *)

\* An Argon2 value is a Go slice: nil or not, the bytes it shows, and the
\* array behind it ("src": the buffer the caller handed to Scan; "other": any
\* other array, such as one made by a conversion; "none": no array).
NilArgon2 == [nil |-> TRUE, bytes |-> <<>>, backing |-> "none"]

\* The values handed to Scan: nil, a []byte, a string, anything else.
SrcNil == [kind |-> "nil", bytes |-> <<>>]

SrcBytes(b) == [kind |-> "bytes", bytes |-> b]

SrcString(b) == [kind |-> "string", bytes |-> b]

SrcOther == [kind |-> "other", bytes |-> <<>>]

\* SerializedSettingsLength+int(settings.SaltLength)+int(settings.KeyLength)
ScanExpectedLen(settings) ==
    AddInt(AddInt(HeaderLen, IntOfU32(settings.SaltLength)),
           IntOfU32(settings.KeyLength))

\* len(src) != SerializedSettingsLength+int(settings.SaltLength)+int(settings.KeyLength)
ScanLengthMismatchUnchecked(src, settings) == FALSE

ScanLengthMismatch(src, settings) ==
    MkU32(Len(src)) # ScanExpectedLen(settings)

\* *a = src
ScanAssignHeaderOnly(src, backing) ==
    [nil |-> FALSE, bytes |-> Slice(src, 0, SerializedSettingsLength),
     backing |-> backing]

ScanAssign(src, backing) == [nil |-> FALSE, bytes |-> src, backing |-> backing]

\* case []byte: of Scan, for a slice over the array `backing`
ScanBytes(a, src, backing) ==
    IF Len(src) = 0
      THEN [err |-> FALSE, a |-> a]
    ELSE IF Len(src) < SerializedSettingsLength
      THEN [err |-> TRUE, a |-> a]
    ELSE LET settings == SettingsFromBytes(Slice(src, 0, SerializedSettingsLength))
         IN  IF ScanLengthMismatch(src, settings)
               THEN [err |-> TRUE, a |-> a]
             ELSE [err |-> FALSE, a |-> ScanAssign(src, backing)]

\* func (a *Argon2) Scan(src any) error; the string case converts, which
\* copies the text into a new array, and scans that.
Scan(a, src) ==
    CASE src.kind = "nil"    -> [err |-> FALSE, a |-> a]
      [] src.kind = "string" -> ScanBytes(a, src.bytes, "other")
      [] src.kind = "bytes"  -> ScanBytes(a, src.bytes, "src")
      [] OTHER               -> [err |-> TRUE, a |-> a]

\* func (a Argon2) Value() (driver.Value, error): []byte(a), nil
Value(a) == [value |-> [nil |-> a.nil, bytes |-> a.bytes], err |-> FALSE]

NoSqlCall == [op |-> "none", src |-> SrcNil, before |-> NilArgon2,
              err |-> FALSE, value |-> [nil |-> TRUE, bytes |-> <<>>]]

NoSql == [a |-> NilArgon2, src |-> SrcNil, call |-> NoSqlCall]

-----------------------------------------------------------------------------
(* Inputs                                                                  *)

Passwords == {<<1>>, <<1, 2>>, <<2, 1>>}

LenVals == {MkU32(n) : n \in 0..MaxLen} \cup {MaxUint32}

\* Buffers are materialised, so the settings enumerated are those whose
\* envelope length, as the code computes it, stays within the model's sizes.
Enumerable(s, k) ==
    LET sum == AddU32(s, k) IN IsSmall(sum) /\ sum.lo <= 2 * MaxLen

LenPairs == {q \in LenVals \X LenVals : Enumerable(q[1], q[2])}

\* The default settings, every enumerable pair of lengths under small cost
\* parameters, and the degenerate cost parameters (no pass, no lane).
SettingsInputs ==
    {DefaultSettings}
      \cup { Settings(MkU32(8), MkU32(1), 1, q[1], q[2]) : q \in LenPairs }
      \cup { Settings(MkU32(8), MkU32(t), p, MkU32(1), MkU32(1)) : t \in 0..1, p \in 0..1 }

NoOrigin == [kind |-> "none", password |-> <<>>, settings |-> DefaultSettings,
             salt |-> <<>>, full |-> <<>>]

\* The lengths a caller cuts a stored envelope down to: nothing, one byte,
\* around the header's end, and a few bytes short of the full envelope.
TruncateLens(h) ==
    {n \in 0..(Len(h) - 1) :
        \/ n <= 1
        \/ (n >= SerializedSettingsLength - 1 /\ n <= SerializedSettingsLength + 1)
        \/ n >= Len(h) - MaxLen}

-----------------------------------------------------------------------------
(* The state machine.  A run follows one envelope: the caller obtains it   *)
(* once (from Derive, or as bytes from elsewhere), may cut it short, and   *)
(* validates passwords against it; rand.Reader may be replaced at any      *)
(* time.  A call that panics leaves the caller without a result.           *)

\* No concurrent call is in progress.
NoProcs == <<>>

NoCodec == [op |-> "none", p |-> DefaultSettings, buf |-> <<>>, q |-> DefaultSettings]

Init ==
    /\ hash = <<>>
    /\ origin = NoOrigin
    /\ reader = "ok"
    /\ last = NoCall
    /\ codec = NoCodec
    /\ sql = NoSql
    /\ procs = NoProcs

\* hash, err := Derive(password, settings)
DeriveOp ==
    /\ origin.kind = "none"
    /\ \E password \in Passwords, settings \in SettingsInputs, seed \in RandSeeds :
        LET r == Derive(password, settings, reader, seed)
        IN  /\ last' = r
            /\ IF r.panic # "none"
                 THEN UNCHANGED <<hash, origin>>
               ELSE IF r.err
                 THEN hash' = <<>> /\ origin' = NoOrigin
               ELSE /\ hash' = r.out
                    /\ origin' = [kind |-> "derived", password |-> password,
                                  settings |-> settings, salt |-> r.salt,
                                  full |-> r.out]
            /\ UNCHANGED <<reader, codec, sql, procs>>

\* ok := hash.Validate(password); the receiver is a slice over the caller's
\* array, so the caller sees what the call leaves in it.
ValidateOp ==
    \E password \in Passwords, seed \in RandSeeds :
        LET r == Validate(hash, password, reader, seed)
        IN  /\ last' = r
            /\ hash' = r.after
            /\ UNCHANGED <<origin, reader, codec, sql, procs>>

\* salt := hash.Salt()
SaltOp ==
    /\ last.op # "Salt"
    /\ LET r == Salt(hash)
       IN  last' = r /\ hash' = r.after
    /\ UNCHANGED <<origin, reader, codec, sql, procs>>

\* key := hash.Key()
KeyOp ==
    /\ last.op # "Key"
    /\ LET r == Key(hash)
       IN  last' = r /\ hash' = r.after
    /\ UNCHANGED <<origin, reader, codec, sql, procs>>

\* The caller holds a derived envelope with trailing bytes cut off.
TruncateOp ==
    /\ origin.kind = "derived"
    /\ \E n \in TruncateLens(hash) :
          /\ hash' = SubSeq(hash, 1, n)
          /\ origin' = [origin EXCEPT !.kind = "truncated"]
    /\ last' = NoCall
    /\ UNCHANGED <<reader, codec, sql, procs>>

\* The offsets (1-based) of the derived-key region at which a stored envelope
\* is altered: its first MaxLen + 1 bytes and its last byte.
TamperAt(h, saltLen) ==
    {i \in (SerializedSettingsLength + saltLen + 1)..Len(h) :
        i <= SerializedSettingsLength + saltLen + MaxLen + 1 \/ i = Len(h)}

\* The caller holds a derived envelope in which one byte of the key differs.
TamperOp ==
    /\ origin.kind = "derived"
    /\ \E i \in TamperAt(hash, Len(origin.salt)), v \in 0..MaxByte :
          /\ v # hash[i]
          /\ hash' = [hash EXCEPT ![i] = v]
    /\ origin' = [origin EXCEPT !.kind = "tampered"]
    /\ last' = NoCall
    /\ UNCHANGED <<reader, codec, sql, procs>>

\* The caller holds arbitrary bytes: any header followed by any payload.
SupplyOp ==
    /\ origin.kind = "none"
    /\ \E s \in SettingsInputs, n \in 0..(2 * MaxLen), seed \in RandSeeds :
          hash' = Serialize(s) \o RandBytes(seed, n)
    /\ origin' = [NoOrigin EXCEPT !.kind = "supplied"]
    /\ last' = NoCall
    /\ UNCHANGED <<reader, codec, sql, procs>>

\* rand.Reader is a package variable: it can be replaced (argon2_test.go:144).
SetReader ==
    /\ reader' = IF reader = "ok" THEN "fail" ELSE "ok"
    /\ last' = NoCall
    /\ UNCHANGED <<hash, origin, codec, sql, procs>>

Next ==
    \/ DeriveOp \/ ValidateOp \/ SaltOp \/ KeyOp
    \/ TruncateOp \/ TamperOp \/ SupplyOp \/ SetReader

Spec == Init /\ [][Next]_vars

-----------------------------------------------------------------------------
(* The codec on its own: Serialize, then SettingsFromBytes of the result   *)

CodecU32 ==
    {MkU32(n) : n \in 0..MaxLen}
      \cup {MkU32(255), MkU32(256), MkU32(321), MkU32(65535), MkU32(65536),
            MkU32(128 * 1024), [hi |-> 1027, lo |-> 513], [hi |-> 32768, lo |-> 0],
            MaxUint32}

CodecInputs ==
    { Settings(m, t, p, s, k) :
        m \in CodecU32,
        t \in {MkU32(0), MkU32(3), [hi |-> 1027, lo |-> 513], MaxUint32},
        p \in {0, 1, 4, 8, 255},
        s \in {MkU32(0), MkU32(32), MkU32(123), [hi |-> 1027, lo |-> 513], MaxUint32},
        k \in {MkU32(0), MkU32(32), MkU32(321), [hi |-> 513, lo |-> 1027], MaxUint32} }

\* The caller holds a Settings value p.
InitCodec ==
    /\ hash = <<>>
    /\ origin = NoOrigin
    /\ reader = "ok"
    /\ last = NoCall
    /\ codec \in {[NoCodec EXCEPT !.op = "input", !.p = p] : p \in CodecInputs}
    /\ sql = NoSql
    /\ procs = NoProcs

\* buf := p.Serialize()
SerializeOp ==
    /\ codec.op = "input"
    /\ codec' = [codec EXCEPT !.op = "Serialize", !.buf = Serialize(codec.p)]
    /\ UNCHANGED <<hash, origin, reader, last, sql, procs>>

\* q := SettingsFromBytes(buf)
DeserializeOp ==
    /\ codec.op = "Serialize"
    /\ codec' = [codec EXCEPT !.op = "SettingsFromBytes", !.q = SettingsFromBytes(codec.buf)]
    /\ UNCHANGED <<hash, origin, reader, last, sql, procs>>

NextCodec == SerializeOp \/ DeserializeOp

SpecCodec == InitCodec /\ [][NextCodec]_vars

-----------------------------------------------------------------------------
(* The storage adapter on its own: a receiver that is scanned into again   *)
(* and again, as database/sql does with a destination reused across rows,  *)
(* and written back with Value.                                            *)

SqlSettings ==
    {DefaultSettings}
      \cup { Settings(MkU32(8), MkU32(1), 1, q[1], q[2]) : q \in LenPairs }

\* The payload lengths tried after a header: none, and what the header
\* declares give or take one byte.
SqlPayloadLens(s) ==
    {n \in 0..(2 * MaxLen + 1) :
        \/ n = 0
        \/ LET want == ScanExpectedLen(s)
           IN  /\ IsSmall(want)
               /\ SerializedSettingsLength + n \in (ToNat(want) - 1)..(ToNat(want) + 1)}

\* Column contents: nothing, a few bytes, a header one byte short, headers
\* followed by payloads, and a full default envelope.
SqlBuffers ==
    {<<>>, <<0, 0, 0>>, Slice(Serialize(DefaultSettings), 0, SerializedSettingsLength - 1)}
      \cup UNION { { Serialize(s) \o RandBytes(1, n) : n \in SqlPayloadLens(s) } :
                    s \in SqlSettings }
      \cup { Serialize(DefaultSettings)
               \o RandBytes(0, ToNat(PayloadLen(DefaultSettings))) }

SqlSources ==
    {SrcNil, SrcOther} \cup { SrcBytes(b) : b \in SqlBuffers }
                       \cup { SrcString(b) : b \in SqlBuffers }

\* Each Scan is handed a buffer of its own, so the array behind an envelope
\* taken from an earlier buffer is no longer the current one.
Earlier(a) == IF a.backing = "src" THEN [a EXCEPT !.backing = "other"] ELSE a

InitSql ==
    /\ hash = <<>>
    /\ origin = NoOrigin
    /\ reader = "ok"
    /\ last = NoCall
    /\ codec = NoCodec
    /\ sql = NoSql
    /\ procs = NoProcs

\* err := (&argon).Scan(src); a run is followed up to the caller's first
\* reuse of a buffer.
ScanOp ==
    /\ sql.call.op # "ModifySrc"
    /\ \E src \in SqlSources :
        LET before == Earlier(sql.a)
            r == Scan(before, src)
        IN  sql' = [a |-> r.a, src |-> src,
                    call |-> [NoSqlCall EXCEPT !.op = "Scan", !.src = src,
                                               !.before = before, !.err = r.err]]
    /\ UNCHANGED <<hash, origin, reader, last, codec, procs>>

\* value, err := argon.Value()
ValueOp ==
    /\ sql.call.op = "Scan"
    /\ LET r == Value(sql.a)
       IN  sql' = [sql EXCEPT !.call = [NoSqlCall EXCEPT !.op = "Value",
                                                         !.before = sql.a,
                                                         !.value = r.value,
                                                         !.err = r.err]]
    /\ UNCHANGED <<hash, origin, reader, last, codec, procs>>

\* The offsets at which the caller overwrites its buffer: the first byte and
\* the last byte.
ModifyAt(b) == {i \in 1..Len(b) : i = 1 \/ i = Len(b)}

\* After Scan returned, the caller reuses the buffer it passed: src[i] = v.
\* The write shows through every slice over the same array.
ModifySrcOp ==
    /\ sql.call.op = "Scan"
    /\ sql.src.kind = "bytes"
    /\ \E i \in ModifyAt(sql.src.bytes), v \in 0..MaxByte :
        /\ v # sql.src.bytes[i]
        /\ sql' = [a |-> IF sql.a.backing = "src"
                           THEN [sql.a EXCEPT !.bytes[i] = v]
                           ELSE sql.a,
                   src |-> [sql.src EXCEPT !.bytes[i] = v],
                   call |-> [sql.call EXCEPT !.op = "ModifySrc", !.before = sql.a]]
    /\ UNCHANGED <<hash, origin, reader, last, codec, procs>>

NextSql == ScanOp \/ ValueOp \/ ModifySrcOp

SpecSql == InitSql /\ [][NextSql]_vars

-----------------------------------------------------------------------------
(* Concurrent calls.  Each goroutine runs one call of Derive or Validate,  *)
(* statement by statement; the goroutines interleave freely and take no    *)
(* lock.  A call's local variables live in a frame.  rand.Reader and       *)
(* DefaultSettings are package variables that the calls only read.         *)

Goroutines == 1..MaxGoroutines

\* The frame holding the local variables (salt, hash, data, settings, key,
\* derived) of the call goroutine g runs: each call has its own.
FrameOfShared(g) == 1

FrameOf(g) == g

NoFrame == [data |-> <<>>, settings |-> DefaultSettings, salt |-> <<>>,
            key |-> <<>>, derived |-> <<>>, hash |-> <<>>]

NoRes == [panic |-> "none", err |-> FALSE, ret |-> FALSE, out |-> <<>>]

DeriveCall(password, settings, seed) ==
    [op |-> "Derive", password |-> password, settings |-> settings, a |-> <<>>,
     seed |-> seed, pc |-> "Derive:salt", res |-> NoRes]

ValidateCall(a, password, seed) ==
    [op |-> "Validate", password |-> password, settings |-> DefaultSettings,
     a |-> a, seed |-> seed, pc |-> "Validate:copy", res |-> NoRes]

ConcSettings == Settings(MkU32(8), MkU32(1), 1, MkU32(1), MkU32(1))

ConcEnvelope == Derive(<<1>>, ConcSettings, "ok", 0).out

\* The calls a goroutine may run: two derivations, and validations of a valid
\* envelope (right and wrong password), of one cut short by a byte, and of an
\* empty one.
ConcCalls ==
    {DeriveCall(<<1>>, ConcSettings, 0),
     DeriveCall(<<1, 2>>, ConcSettings, 1),
     ValidateCall(ConcEnvelope, <<1>>, 0),
     ValidateCall(ConcEnvelope, <<1, 2>>, 1),
     ValidateCall(Slice(ConcEnvelope, 0, Len(ConcEnvelope) - 1), <<1>>, 1),
     ValidateCall(<<>>, <<1, 2>>, 0)}

\* What the same call returns when it runs alone, with the same inputs and
\* the same draws from the random source.
Alone(c) ==
    LET r == IF c.op = "Derive"
               THEN Derive(c.password, c.settings, reader, c.seed)
               ELSE Validate(c.a, c.password, reader, c.seed)
    IN  [panic |-> r.panic, err |-> r.err, ret |-> r.ret, out |-> r.out]

InitConc ==
    /\ hash = <<>>
    /\ origin = NoOrigin
    /\ reader \in {"ok", "fail"}
    /\ last = NoCall
    /\ codec = NoCodec
    /\ sql = NoSql
    /\ procs \in {[call |-> c, frame |-> [g \in Goroutines |-> NoFrame]] :
                    c \in [Goroutines -> ConcCalls]}

\* Goroutine g moves on to the call state c, leaving f in its frame.
Step(g, c, f) ==
    /\ procs' = [call  |-> [procs.call EXCEPT ![g] = c],
                 frame |-> [procs.frame EXCEPT ![FrameOf(g)] = f]]
    /\ UNCHANGED <<hash, origin, reader, last, codec, sql>>

Goto(c, pc) == [c EXCEPT !.pc = pc]

Return(c, res) == [c EXCEPT !.pc = "done", !.res = res]

\* salt := make([]byte, settings.SaltLength); io.ReadFull(rand.Reader, salt)
ConcDeriveSalt ==
    \E g \in Goroutines :
        LET c == procs.call[g]
            f == procs.frame[FrameOf(g)]
            r == ReadFull(reader, c.seed, IntOfU32(c.settings.SaltLength))
        IN  /\ c.pc = "Derive:salt"
            /\ IF DeriveSaltFailed(r)
                 THEN Step(g, Return(c, [NoRes EXCEPT !.err = TRUE]), f)
                 ELSE Step(g, Goto(c, "Derive:alloc"), [f EXCEPT !.salt = r.buf])

\* hash := make([]byte, hashSize); copy(hash, serialized);
\* copy(hash[SerializedSettingsLength:], salt)
ConcDeriveAlloc ==
    \E g \in Goroutines :
        LET c == procs.call[g]
            f == procs.frame[FrameOf(g)]
            h == CopyInto(Make(DeriveHashSize(c.settings)), Serialize(c.settings))
        IN  /\ c.pc = "Derive:alloc"
            /\ Step(g, Goto(c, "Derive:kdf"),
                    [f EXCEPT !.hash = CopyAt(h, SerializedSettingsLength, Len(h),
                                              f.salt)])

\* key := argon2.IDKey([]byte(password), salt, ...)
ConcDeriveKdf ==
    \E g \in Goroutines :
        LET c == procs.call[g]
            f == procs.frame[FrameOf(g)]
        IN  /\ c.pc = "Derive:kdf"
            /\ IF IDKeyPanics(c.settings.Time, c.settings.Threads, c.settings.KeyLength)
                 THEN Step(g, Return(c, [NoRes EXCEPT !.panic = "kdf"]), f)
                 ELSE Step(g, Goto(c, "Derive:assemble"),
                           [f EXCEPT !.key = IDKey(c.password, f.salt, c.settings.Time,
                                                   c.settings.Memory, c.settings.Threads,
                                                   c.settings.KeyLength)])

\* copy(hash[SerializedSettingsLength+int(settings.SaltLength):hashSize], key)
\* return hash, nil
ConcDeriveAssemble ==
    \E g \in Goroutines :
        LET c  == procs.call[g]
            f  == procs.frame[FrameOf(g)]
            lo == SaltEnd(c.settings)
            hi == DeriveHashSize(c.settings)
        IN  /\ c.pc = "Derive:assemble"
            /\ IF ~SliceInRange(lo, hi, MkU32(Len(f.hash)))
                 THEN Step(g, Return(c, [NoRes EXCEPT !.panic = "slice"]), f)
                 ELSE Step(g, Return(c, [NoRes EXCEPT
                                           !.out = CopyAt(f.hash, ToNat(lo), ToNat(hi),
                                                          f.key)]), f)

\* data := make([]byte, len(a)); copy(data, a)
ConcValidateCopy ==
    \E g \in Goroutines :
        LET c == procs.call[g]
            f == procs.frame[FrameOf(g)]
        IN  /\ c.pc = "Validate:copy"
            /\ Step(g, Goto(c, "Validate:short"),
                    [f EXCEPT !.data = WorkingCopy(c.a).data])

\* if len(data) < SerializedSettingsLength { data = make(...); copy(...);
\* io.ReadFull(rand.Reader, data[SerializedSettingsLength:]) }
ConcValidateShort ==
    \E g \in Goroutines :
        LET c == procs.call[g]
            f == procs.frame[FrameOf(g)]
            r == ReadFull(reader, c.seed, PayloadLen(DefaultSettings))
        IN  /\ c.pc = "Validate:short"
            /\ IF ValidateTooShort(f.data)
                 THEN Step(g, Goto(c, "Validate:check"),
                           [f EXCEPT !.data =
                               Resynthesise(ValidateExpectedLen(DefaultSettings),
                                            Serialize(DefaultSettings), r)])
                 ELSE Step(g, Goto(c, "Validate:check"), f)

\* settings := SettingsFromBytes(data[:SerializedSettingsLength])
\* if len(data) != ... { data = make(...); copy(data, data[:18]);
\* io.ReadFull(rand.Reader, data[SerializedSettingsLength:]) }
ConcValidateCheck ==
    \E g \in Goroutines :
        LET c == procs.call[g]
            f == procs.frame[FrameOf(g)]
        IN  /\ c.pc = "Validate:check"
            /\ IF ~SliceInRange(MkU32(0), HeaderLen, MkU32(Len(f.data)))
                 THEN Step(g, Return(c, [NoRes EXCEPT !.panic = "slice"]), f)
                 ELSE LET settings == SettingsFromBytes(
                                          Slice(f.data, 0, SerializedSettingsLength))
                          r == ReadFull(reader, c.seed + 1, PayloadLen(settings))
                      IN  IF ValidateLengthMismatch(f.data, settings)
                            THEN Step(g, Goto(c, "Validate:slice"),
                                      [f EXCEPT !.settings = settings,
                                                !.data = Resynthesise(
                                                    ValidateExpectedLen(settings),
                                                    Zeros(SerializedSettingsLength), r)])
                            ELSE Step(g, Goto(c, "Validate:slice"),
                                      [f EXCEPT !.settings = settings])

\* salt := data[18 : 18+int(settings.SaltLength)]; key := data[... : ...]
ConcValidateSlice ==
    \E g \in Goroutines :
        LET c        == procs.call[g]
            f        == procs.frame[FrameOf(g)]
            cap      == MkU32(Len(f.data))
            saltEnd  == SaltEnd(f.settings)
            keyStart == ValidateKeyStart(f.settings)
            want     == ValidateExpectedLen(f.settings)
        IN  /\ c.pc = "Validate:slice"
            /\ IF \/ ~SliceInRange(HeaderLen, saltEnd, cap)
                  \/ ~SliceInRange(keyStart, want, cap)
                 THEN Step(g, Return(c, [NoRes EXCEPT !.panic = "slice"]), f)
                 ELSE Step(g, Goto(c, "Validate:kdf"),
                           [f EXCEPT !.salt = Slice(f.data, SerializedSettingsLength,
                                                    ToNat(saltEnd)),
                                     !.key = Slice(f.data, ToNat(keyStart),
                                                   ToNat(want))])

\* derived := argon2.IDKey([]byte(password), salt, ...)
ConcValidateKdf ==
    \E g \in Goroutines :
        LET c == procs.call[g]
            f == procs.frame[FrameOf(g)]
        IN  /\ c.pc = "Validate:kdf"
            /\ IF IDKeyPanics(f.settings.Time, f.settings.Threads, f.settings.KeyLength)
                 THEN Step(g, Return(c, [NoRes EXCEPT !.panic = "kdf"]), f)
                 ELSE Step(g, Goto(c, "Validate:compare"),
                           [f EXCEPT !.derived =
                               IDKey(c.password, f.salt, f.settings.Time,
                                     f.settings.Memory, f.settings.Threads,
                                     f.settings.KeyLength)])

\* return subtle.ConstantTimeCompare(key, derived) == 1
ConcValidateCompare ==
    \E g \in Goroutines :
        LET c == procs.call[g]
            f == procs.frame[FrameOf(g)]
        IN  /\ c.pc = "Validate:compare"
            /\ Step(g, Return(c, [NoRes EXCEPT !.ret = ValidateResult(f.key, f.derived)]),
                    f)

NextConc ==
    \/ ConcDeriveSalt \/ ConcDeriveAlloc \/ ConcDeriveKdf \/ ConcDeriveAssemble
    \/ ConcValidateCopy \/ ConcValidateShort \/ ConcValidateCheck
    \/ ConcValidateSlice \/ ConcValidateKdf \/ ConcValidateCompare

SpecConc == InitConc /\ [][NextConc]_vars

-----------------------------------------------------------------------------
(* Claims about Derive and Validate (specification Spec)                   *)

OriginKdf(password) ==
    IDKey(password, origin.salt, origin.settings.Time, origin.settings.Memory,
          origin.settings.Threads, origin.settings.KeyLength)

\* C1: Validate called with the password an envelope was derived from, on the
\* envelope Derive returned, returns true (and does not panic).
C1_RoundTrip ==
    (last.op = "Validate" /\ origin.kind = "derived"
       /\ last.password = origin.password)
    => (last.panic = "none" /\ last.ret = TRUE)

C1_Witness ==
    /\ last.op = "Validate" /\ origin.kind = "derived"
    /\ last.password = origin.password
    /\ origin.settings.SaltLength = MkU32(2)
    /\ origin.settings.KeyLength = MkU32(1)
    /\ last.a = origin.full
    /\ last.ret = TRUE

\* C2: Validate called with another password, whose KDF output for the
\* envelope's salt and settings differs from that of the password the envelope
\* was derived from, returns false.
C2_WrongPassword ==
    (last.op = "Validate" /\ origin.kind = "derived"
       /\ OriginKdf(last.password) # OriginKdf(origin.password))
    => (last.panic = "none" /\ last.ret = FALSE)

C2_Witness ==
    /\ last.op = "Validate" /\ origin.kind = "derived"
    /\ last.password # origin.password
    /\ OriginKdf(last.password) # OriginKdf(origin.password)
    /\ origin.settings.SaltLength = MkU32(1)
    /\ last.ret = FALSE

\* The envelopes C3 speaks of: absent or empty, shorter than the header, or a
\* derived envelope with trailing bytes cut off.
Malformed == Len(hash) < SerializedSettingsLength \/ origin.kind = "truncated"

C4_NoSlicePanic == last.op = "Validate" => last.panic # "slice"

\* C5: every call of Validate invokes the KDF exactly once.
C5_KdfExactlyOnce == last.op = "Validate" => last.kdfCalls = 1

\* C6: when the random read succeeds (and the KDF accepts the parameters),
\* Derive returns Serialize(params), then the salt read, then the KDF output:
\* 18 + saltLength + keyLength bytes.
C6_DeriveLayout ==
    (last.op = "Derive" /\ last.randErrs = 0 /\ last.panic # "kdf")
    => /\ last.panic = "none" /\ ~last.err
       /\ MkU32(Len(last.out)) =
            AddInt(AddInt(HeaderLen, IntOfU32(last.settings.SaltLength)),
                   IntOfU32(last.settings.KeyLength))
       /\ last.out = Serialize(last.settings) \o last.randBytes
                       \o IDKey(last.password, last.randBytes, last.settings.Time,
                                last.settings.Memory, last.settings.Threads,
                                last.settings.KeyLength)

\* C7: when the read of the salt fails, Derive returns an error and no
\* envelope, after one read and without calling the KDF.
C7_RandFailure ==
    (last.op = "Derive" /\ last.randErrs > 0)
    => /\ last.err /\ last.panic = "none"
       /\ last.out = <<>> /\ hash = <<>>
       /\ last.kdfCalls = 0
       /\ last.randReads = 1

C7_Witness ==
    /\ last.op = "Derive" /\ last.randErrs = 1 /\ last.err
    /\ last.settings.SaltLength = MkU32(2)

\* C8: on a fallback path the salt and key Validate uses were delivered by
\* the random source; a failed read is reported, not masked.
C8_FallbackBytesAreRandom ==
    (last.op = "Validate" /\ last.path \in {"short", "mismatch"}
       /\ last.panic = "none")
    => (last.randErrs = 0 \/ last.err)

\* C14: on an envelope Derive returned, Salt returns the saltLength bytes from
\* offset 18 (the salt Derive read) and Key the keyLength bytes after them
\* (the KDF output), so that the header, the salt and the key in this order
\* are the envelope; on an envelope shorter than 18 bytes both return an
\* empty result.
C14_SaltKeyExtract ==
    /\ (last.op \in {"Salt", "Key"} /\ origin.kind = "derived")
       => /\ last.panic = "none"
          /\ last.op = "Salt"
               => /\ MkU32(Len(last.out)) = origin.settings.SaltLength
                  /\ last.out = origin.salt
                  /\ last.out = SubSeq(hash, 19, 18 + Len(last.out))
          /\ last.op = "Key"
               => /\ MkU32(Len(last.out)) = origin.settings.KeyLength
                  /\ last.out = OriginKdf(origin.password)
                  /\ last.out = SubSeq(hash, 19 + Len(origin.salt),
                                       18 + Len(origin.salt) + Len(last.out))
          /\ Serialize(origin.settings) \o Salt(hash).out \o Key(hash).out = hash
    /\ (last.op \in {"Salt", "Key"} /\ Len(hash) < 18)
       => (last.panic = "none" /\ last.out = <<>>)

C14_Witness ==
    /\ last.op = "Key" /\ origin.kind = "derived"
    /\ origin.settings.SaltLength = MkU32(2)
    /\ origin.settings.KeyLength = MkU32(2)
    /\ last.out = OriginKdf(origin.password)
    /\ Serialize(origin.settings) \o Salt(hash).out \o last.out = hash

-----------------------------------------------------------------------------
(* Claims about the codec (specification SpecCodec)                        *)

\* C9: SettingsFromBytes(Serialize(p)) = p in all five fields.
C9_CodecRoundTrip ==
    codec.op = "SettingsFromBytes"
    => /\ codec.q.Memory = codec.p.Memory
       /\ codec.q.Time = codec.p.Time
       /\ codec.q.Threads = codec.p.Threads
       /\ codec.q.SaltLength = codec.p.SaltLength
       /\ codec.q.KeyLength = codec.p.KeyLength

C9_Witness ==
    /\ codec.op = "SettingsFromBytes"
    /\ codec.p.Memory = MaxUint32 /\ codec.p.Threads = 255
    /\ codec.p.SaltLength = MkU32(123) /\ codec.p.KeyLength = MkU32(321)
    /\ codec.q = codec.p

\* The value of a uint32 whose little-endian bytes are b[at+1..at+4] (at a
\* 0-based offset).
FieldAt(b, at) ==
    [hi |-> b[at + 3] + ByteMod * b[at + 4], lo |-> b[at + 1] + ByteMod * b[at + 2]]

-----------------------------------------------------------------------------
(* Claims about the storage adapter (specification SpecSql)                *)

\* nil, a []byte of length zero, a string of length zero
EmptySource(src) ==
    src.kind = "nil" \/ (src.kind \in {"bytes", "string"} /\ Len(src.bytes) = 0)

\* C11: Scan of nil, of zero-length bytes or of zero-length text returns no
\* error and leaves the receiver nil, whatever the receiver held before.
C11_EmptyScanYieldsAbsent ==
    (sql.call.op = "Scan" /\ EmptySource(sql.call.src))
    => (~sql.call.err /\ sql.a.nil)

\* The length an envelope's own header declares: 18 + saltLength + keyLength,
\* with saltLength at offset 10 and keyLength at offset 14.
DeclaredLen(b) ==
    AddInt(AddInt(MkU32(18), FieldAt(b, 10)), FieldAt(b, 14))

\* The inputs C12 speaks of.
RejectedSource(src) ==
    \/ /\ src.kind \in {"bytes", "string"}
       /\ Len(src.bytes) > 0 /\ Len(src.bytes) < 18
    \/ /\ src.kind \in {"bytes", "string"}
       /\ Len(src.bytes) >= 18
       /\ MkU32(Len(src.bytes)) # DeclaredLen(src.bytes)
    \/ src.kind \notin {"nil", "bytes", "string"}

\* C12: Scan returns an error and leaves the receiver as it was for non-empty
\* bytes or text shorter than 18 bytes, for bytes or text of 18 bytes or more
\* whose length differs from what their header declares, and for a value that
\* is neither nil, bytes nor text.
C12_ScanRejects ==
    (sql.call.op = "Scan" /\ RejectedSource(sql.call.src))
    => (sql.call.err /\ sql.a = sql.call.before)

C12_Witness ==
    /\ sql.call.op = "Scan" /\ sql.call.err
    /\ sql.call.src.kind = "string"
    /\ Len(sql.call.src.bytes) = 18
    /\ FieldAt(sql.call.src.bytes, 14) = MaxUint32
    /\ ~sql.call.before.nil
    /\ sql.a = sql.call.before

\* A structurally consistent envelope: as long as its own header declares.
Consistent(b) == Len(b) >= 18 /\ MkU32(Len(b)) = DeclaredLen(b)

\* C13: Scan of a structurally consistent envelope e, as bytes or as text,
\* succeeds and leaves the receiver equal to e byte for byte; Value of that
\* receiver returns exactly e and no error; Value of a nil envelope returns a
\* byte string of length zero and no error.
C13_StorageRoundTrip ==
    /\ (sql.call.op = "Scan" /\ sql.call.src.kind \in {"bytes", "string"}
          /\ Consistent(sql.call.src.bytes))
       => (~sql.call.err /\ ~sql.a.nil /\ sql.a.bytes = sql.call.src.bytes)
    /\ (sql.call.op = "Value" /\ sql.src.kind \in {"bytes", "string"}
          /\ Consistent(sql.src.bytes))
       => (~sql.call.err /\ ~sql.call.value.nil
             /\ sql.call.value.bytes = sql.src.bytes)
    /\ (sql.call.op = "Value" /\ sql.call.before.nil)
       => (~sql.call.err /\ Len(sql.call.value.bytes) = 0)

C13_Witness ==
    /\ sql.call.op = "Value"
    /\ sql.src.kind = "string"
    /\ Len(sql.src.bytes) = 82
    /\ Consistent(sql.src.bytes)
    /\ sql.call.value.bytes = sql.src.bytes

\* C18: after Scan succeeded on a byte buffer, a write of the caller to that
\* buffer does not change the envelope the receiver holds.
C18_NoSharedStorage ==
    (sql.call.op = "ModifySrc" /\ ~sql.call.err)
    => sql.a = sql.call.before

-----------------------------------------------------------------------------
(* Further claims about Validate, Salt and Key (specification Spec)        *)

\* Stored data that is too short: shorter than the header, or shorter than
\* the length its header declares.
TooShort(b) == Len(b) < 18 \/ ~IntLeq(DeclaredLen(b), MkU32(Len(b)))

\* C15: on an envelope that is too short, also one of 18 bytes or more that
\* is shorter than its header declares, Salt and Key do not fail and return
\* an empty slice.
C15_AccessorsNeverFail ==
    (last.op \in {"Salt", "Key"} /\ TooShort(last.a))
    => (last.panic = "none" /\ last.out = <<>>)

\* C16: Validate, Salt and Key leave the envelope they are called on as it
\* was, on every path; the random bytes Validate draws on a fallback path go
\* to its own buffer only.
C16_ReceiverUnchanged ==
    last.op \in {"Validate", "Salt", "Key"}
    => /\ last.after = last.a
       /\ hash = last.a
       /\ (last.op = "Validate" /\ last.path \in {"short", "mismatch"})
            => /\ Slice(last.data, 18, Len(last.data)) = last.randBytes
               /\ Len(last.data) = 18 + Len(last.randBytes)

C16_Witness ==
    /\ last.op = "Validate" /\ last.path = "mismatch"
    /\ origin.kind = "truncated"
    /\ Len(last.a) > 18
    /\ last.randReads = 1 /\ last.randErrs = 0
    /\ last.data # last.a
    /\ hash = last.a

\* C17: when one byte of the key region of a derived envelope is changed,
\* Validate with the password the envelope was derived from returns false.
C17_TamperedKeyRejected ==
    (last.op = "Validate" /\ origin.kind = "tampered"
       /\ last.password = origin.password)
    => (last.panic = "none" /\ last.ret = FALSE)

C17_Witness ==
    /\ last.op = "Validate" /\ origin.kind = "tampered"
    /\ last.password = origin.password
    /\ origin.settings.KeyLength = MkU32(2)
    /\ last.path = "wellformed"
    /\ Len(hash) = Len(origin.full)
    /\ Cardinality({i \in 1..Len(hash) : hash[i] # origin.full[i]}) = 1
    /\ hash[Len(hash)] # origin.full[Len(hash)]
    /\ last.ret = FALSE

-----------------------------------------------------------------------------
(* Claims about concurrent calls (specification SpecConc)                  *)

\* C19: in every interleaving of concurrent calls of Derive and Validate,
\* without locks, each call returns what it returns when run alone on the
\* same inputs and random draws.
C19_CallsIndependent ==
    \A g \in Goroutines :
        procs.call[g].pc = "done" => procs.call[g].res = Alone(procs.call[g])

C19_Witness ==
    /\ procs.call[1].op = "Validate" /\ procs.call[1].pc = "done"
    /\ procs.call[1].a = ConcEnvelope
    /\ procs.call[1].res.ret = TRUE
    /\ procs.call[2].op = "Validate" /\ procs.call[2].pc = "Validate:kdf"
    /\ procs.call[2].a = <<>>
    /\ reader = "ok"

-----------------------------------------------------------------------------
(* Claims about length checks (specification Spec)                         *)

\* An envelope of 18 bytes or more whose length is not the one its header
\* declares.
Disagrees(b) == Len(b) >= 18 /\ MkU32(Len(b)) # DeclaredLen(b)

\* The envelopes with the header of b and other trailing bytes, whose length
\* disagrees with that header too.
OtherTrailing(b) ==
    {e \in {Slice(b, 0, 18) \o RandBytes(sd, n) : sd \in RandSeeds, n \in 0..(2 * MaxLen)} :
        Disagrees(e)}

\* What the caller sees of a call of Validate.
Outcome(r) == [panic |-> r.panic, ret |-> r.ret, kdf |-> r.kdf, kdfCalls |-> r.kdfCalls]

\* C21: on an envelope of 18 bytes or more whose length disagrees with its
\* header, Validate calls the KDF with the cost parameters and key length of
\* that header and a salt of saltLength bytes delivered by the random source,
\* and two such envelopes with the same header give the same outcome under the
\* same password and the same random draws.
C21_MismatchUsesHeader ==
    (last.op = "Validate" /\ Disagrees(last.a))
    => /\ last.kdfCalls = 1
       /\ last.kdf.memory = FieldAt(last.a, 0)
       /\ last.kdf.time = FieldAt(last.a, 4)
       /\ last.kdf.threads = last.a[9]
       /\ last.kdf.keyLen = FieldAt(last.a, 14)
       /\ MkU32(Len(last.kdf.salt)) = FieldAt(last.a, 10)
       /\ last.randErrs = 0
       /\ last.kdf.salt = SubSeq(last.randBytes, 1, Len(last.kdf.salt))
       /\ \A e \in OtherTrailing(last.a), seed \in RandSeeds :
            Outcome(Validate(e, last.password, reader, seed))
              = Outcome(Validate(last.a, last.password, reader, seed))

\* C22: Validate uses an envelope's own salt and key bytes exactly when its
\* length is 18 + saltLength + keyLength, the sum taken without wraparound
\* modulo 2^32, and the salt and key slices lie inside the working buffer.
C22_ConsistentWithoutWrap ==
    (last.op = "Validate" /\ Len(last.a) >= 18)
    => /\ (last.path = "wellformed") <=> Consistent(last.a)
       /\ last.panic # "slice"

\* C23: Derive returns an error only when the read of the salt failed; when
\* the read succeeds (and the KDF accepts the parameters), whatever
\* saltLength and keyLength are, Derive does not abort on an out-of-range
\* slice and returns 18 + saltLength + keyLength bytes, the sum taken without
\* wraparound modulo 2^32.
C23_DeriveNoWrap ==
    /\ (last.op = "Derive" /\ last.err) => last.randErrs > 0
    /\ (last.op = "Derive" /\ last.randErrs = 0 /\ last.panic # "kdf")
       => /\ last.panic # "slice"
          /\ ~last.err
          /\ MkU32(Len(last.out)) =
               AddInt(AddInt(MkU32(18), last.settings.SaltLength),
                      last.settings.KeyLength)

\* C24: for every non-empty byte string b, Scan accepts b exactly when
\* Validate on b takes the well-formed path (no fallback to the defaults, no
\* resynthesis).
C24_ScanAgreesWithValidate ==
    (last.op = "Validate" /\ Len(last.a) > 0)
    => (~Scan(NilArgon2, SrcBytes(last.a)).err <=> last.path = "wellformed")

====
